---- MODULE Spec2Model ----
(***************************************************************************)
(* A model of Nexus.py, the Nextion upload client: the Nexus object, its   *)
(* connect() scan over ports and baud rates with the comok handshake, and  *)
(* upload() with the speed switch and the block loop.                      *)
(*                                                                         *)
(* Byte strings are sequences of byte values 0..255.  The serial device,   *)
(* the operating system (open succeeding or failing) and the TFT file are  *)
(* the environment: each of their answers is a choice the actions make     *)
(* with \E over small sets.                                                *)
(***************************************************************************)
EXTENDS Integers, Sequences, FiniteSets, TLC

(***************************************************************************)
(* Bounds of the model.                                                    *)
(***************************************************************************)
\* calls of connect(), sendCmd() and upload() made on one object
MaxCalls == 3
\* the header sizes tried reach MaxBlocks whole blocks
MaxBlocks == 2
\* block writes after which a run of the block loop is no longer followed
MaxWrites == 3

(***************************************************************************)
(* Protocol constants of class Nexus.                                      *)
(***************************************************************************)
NXEOL == <<255, 255, 255>>
NXACK == <<5>>
NXALL == <<8, 0, 0, 0, 0>>
BlockSize == 4096
HeaderOffset == 60
DefaultSpeeds ==
    <<2400, 4800, 9600, 19200, 31250, 38400, 57600, 74880, 115200, 230400,
      250000, 256000, 460800, 500000, 512000, 921600>>
\* b"comok"
Comok == <<99, 111, 109, 111, 107>>
\* the bytes of b"comok ", the character set data.lstrip() removes
ComokChars == {99, 111, 109, 107, 32}
Comma == 44
Dash == 45

(***************************************************************************)
(* bytes and str methods the code uses.                                    *)
(***************************************************************************)
StartsWith(s, p) == Len(s) >= Len(p) /\ SubSeq(s, 1, Len(p)) = p

EndsWith(s, p) ==
    Len(s) >= Len(p) /\ SubSeq(s, Len(s) - Len(p) + 1, Len(s)) = p

\* bytes.lstrip(chars): drops the leading bytes that are members of chars
LStrip(s, chars) ==
    LET keep == {i \in 1..Len(s) : s[i] \notin chars}
    IN  IF keep = {} THEN <<>>
        ELSE SubSeq(s, CHOOSE i \in keep : \A j \in keep : i <= j, Len(s))

\* bytes.rstrip(chars): drops the trailing bytes that are members of chars
RStrip(s, chars) ==
    LET keep == {i \in 1..Len(s) : s[i] \notin chars}
    IN  IF keep = {} THEN <<>>
        ELSE SubSeq(s, 1, CHOOSE i \in keep : \A j \in keep : i >= j)

\* bytes.split(sep) for a one-byte separator: always at least one field
RECURSIVE Split(_, _)
Split(s, sep) ==
    LET at == {i \in 1..Len(s) : s[i] = sep}
    IN  IF at = {} THEN <<s>>
        ELSE LET i == CHOOSE k \in at : \A j \in at : k <= j
             IN  <<SubSeq(s, 1, i - 1)>> \o Split(SubSeq(s, i + 1, Len(s)), sep)

IsDigit(b) == b >= 48 /\ b <= 57

\* int(bytes) accepts an optional sign followed by decimal digits (the
\* surrounding whitespace and the underscores Python also accepts never
\* occur in the replies drawn here); anything else raises ValueError
IsInt(s) ==
    LET d == IF s # <<>> /\ s[1] \in {43, 45} THEN Tail(s) ELSE s
    IN  d # <<>> /\ \A i \in 1..Len(d) : IsDigit(d[i])

RECURSIVE DigitsVal(_)
DigitsVal(d) ==
    IF d = <<>> THEN 0
    ELSE 10 * DigitsVal(SubSeq(d, 1, Len(d) - 1)) + (d[Len(d)] - 48)

IntVal(s) ==
    IF s[1] = 45 THEN 0 - DigitsVal(Tail(s))
    ELSE IF s[1] = 43 THEN DigitsVal(Tail(s))
    ELSE DigitsVal(s)

\* bytes.decode("ascii") raises UnicodeDecodeError on a byte above 127
IsAscii(s) == \A i \in 1..Len(s) : s[i] < 128

CeilDivFloored(a, b) == a \div b

\* math.ceil(a / b) for b > 0; \div rounds towards minus infinity
CeilDiv(a, b) == 0 - ((0 - a) \div b)

\* struct.unpack_from("<I", proceed, 1)[0]
UnpackLE(proceed) ==
    proceed[2] + 256 * proceed[3] + 65536 * proceed[4] + 16777216 * proceed[5]

(***************************************************************************)
(* Nexus.__init__: the available ports, a specified port moved first.      *)
(***************************************************************************)
RemoveFirst(list, x) ==
    LET at == {i \in 1..Len(list) : list[i] = x}
        i  == CHOOSE k \in at : \A j \in at : k <= j
    IN  SubSeq(list, 1, i - 1) \o SubSeq(list, i + 1, Len(list))

InList(list, x) == \E i \in 1..Len(list) : list[i] = x

PortOrder(available, port) ==
    IF port # "" THEN <<port>> \o RemoveFirst(available, port) ELSE available

(***************************************************************************)
(* Nexus.connect: the speed list.                                          *)
(***************************************************************************)
SpeedOrderAppended(connectSpeed) ==
    IF connectSpeed # 0
    THEN (IF InList(DefaultSpeeds, connectSpeed)
          THEN RemoveFirst(DefaultSpeeds, connectSpeed)
          ELSE DefaultSpeeds) \o <<connectSpeed>>
    ELSE DefaultSpeeds

SpeedOrder(connectSpeed) ==
    IF connectSpeed # 0
    THEN <<connectSpeed>> \o
         (IF InList(DefaultSpeeds, connectSpeed)
          THEN RemoveFirst(DefaultSpeeds, connectSpeed)
          ELSE DefaultSpeeds)
    ELSE DefaultSpeeds

\* self.ser.timeout = 1000/speed + 0.030, in microseconds
ScanTimeout(speed) == (1000000000 \div speed) + 30000

\* the timeouts upload() sets, in microseconds
UploadTimeout == 500000
FirstBlockTimeout == 2000000

(***************************************************************************)
(* Nexus.connect: the read loop.  reads is what the device makes of the    *)
(* successive iterations: in_waiting before the read, and the chunk that   *)
(* read_until returns (empty on a timeout with nothing received; once the  *)
(* device has nothing more to send every further read is such a timeout).  *)
(***************************************************************************)
RECURSIVE ReadLoop(_, _, _)
ReadLoop(reads, data, available) ==
    IF available = Len(data) THEN data
    ELSE IF reads = <<>> THEN data
    ELSE IF Head(reads).chunk # <<>>
         THEN ReadLoop(Tail(reads), Head(reads).chunk, Head(reads).avail)
         ELSE data

Response(reads) == ReadLoop(reads, <<>>, 0 - 1)

\* every byte the reads of that loop returned, in the order of arrival
RECURSIVE ReadLoopAll(_, _, _, _)
ReadLoopAll(reads, data, available, all) ==
    IF available = Len(data) THEN all
    ELSE IF reads = <<>> THEN all
    ELSE IF Head(reads).chunk # <<>>
         THEN ReadLoopAll(Tail(reads), Head(reads).chunk, Head(reads).avail,
                          all \o Head(reads).chunk)
         ELSE all

Received(reads) == ReadLoopAll(reads, <<>>, 0 - 1, <<>>)

\* not (not data.startswith(b"comok"))
Accepted(data) == StartsWith(data, Comok)

(***************************************************************************)
(* Nexus.connect: parsing of the accepted response (lines 82 to 90).       *)
(***************************************************************************)
Fields(data) == Split(RStrip(LStrip(data, ComokChars), {255}), Comma)

AddressPartReserved(f) == Split(f[2], Dash)[1]

\* data[1].split(b"-")[1]
AddressPart(f) == Split(f[2], Dash)[2]

\* how many of the eight statements of lines 83 to 90 complete before one
\* raises (IndexError, ValueError, UnicodeDecodeError); 8 when none does
ParsedLines(data) ==
    LET f == Fields(data)
    IN  IF ~(Len(f) >= 2 /\ Len(Split(f[2], Dash)) >= 2) THEN 0
        ELSE IF ~IsInt(f[1]) THEN 1
        ELSE IF ~IsInt(AddressPart(f)) THEN 2
        ELSE IF ~(Len(f) >= 3 /\ IsAscii(f[3])) THEN 3
        ELSE IF ~(Len(f) >= 4 /\ IsInt(f[4])) THEN 4
        ELSE IF ~(Len(f) >= 5 /\ IsInt(f[5])) THEN 5
        ELSE IF ~(Len(f) >= 6 /\ IsAscii(f[6])) THEN 6
        ELSE IF ~(Len(f) >= 7 /\ IsInt(f[7])) THEN 7
        ELSE 8

(***************************************************************************)
(* The environment: the ports of the machine, the constructor's arguments, *)
(* and what a device may send back to the connect challenge.               *)
(***************************************************************************)
AvailablePorts == {<<"ttyS0", "ttyUSB0">>}
PortArgs == {"", "ttyUSB0"}
ConnectSpeedArgs == {0, 9600, 1200}
UploadSpeedArgs == {0, 115200}
\* the constructor calls followed: each argument takes each of its values,
\* and each two arguments each pair of their values but one
Constructions ==
    { <<"", 0, 0>>, <<"", 115200, 9600>>, <<"", 0, 1200>>,
      <<"ttyUSB0", 115200, 0>>, <<"ttyUSB0", 0, 9600>>,
      <<"ttyUSB0", 115200, 1200>> }

\* b"NX4024T", b"ABC123", b"1048576"
ModelBytes == <<78, 88, 52, 48, 50, 52, 84>>
SerialBytes == <<65, 66, 67, 49, 50, 51>>
FlashBytes == <<49, 48, 52, 56, 53, 55, 54>>

\* b"comok 1,0-1234," + model + b",1,2,ABC123,1048576\xff\xff\xff"
Reply(modelField, fwField) ==
    Comok \o <<32, 49, 44, 48, 45, 49, 50, 51, 52, 44>> \o modelField \o <<44>>
          \o fwField \o <<44, 50, 44>> \o SerialBytes \o <<44>> \o FlashBytes
          \o NXEOL

ReplyOk == Reply(ModelBytes, <<49>>)
ReplyNoModel == Reply(<<>>, <<49>>)
\* the firmware field is b"x"
ReplyBadFw == Reply(ModelBytes, <<120>>)
ReplyTruncated == Comok \o NXEOL
\* b"comok 0,7-65,NX8048P,163,61744,D2,16777216\xff\xff\xff"
ReplyOther ==
    Comok \o <<32, 48, 44, 55, 45, 54, 53, 44, 78, 88, 56, 48, 52, 56, 80, 44,
               49, 54, 51, 44, 54, 49, 55, 52, 52, 44, 68, 50, 44,
               49, 54, 55, 55, 55, 50, 49, 54>> \o NXEOL
\* the reply the read timed out on, two digits and the end of line short
ReplyPartial == SubSeq(ReplyOk, 1, Len(ReplyOk) - 5)
Garbage == <<0, 63, 255, 255, 255>>

\* the whole chunk was in the input buffer before the read
Buffered(c) == <<[avail |-> Len(c), chunk |-> c]>>
\* the chunk arrived while read_until was waiting
Late(c) == <<[avail |-> 0, chunk |-> c]>>

\* what the reads return when nothing answers the challenge, as at a baud
\* rate the device does not listen at: every read times out
Noise == { <<>> }

\* what they return when a device answers: something else than comok, or its
\* reply in one chunk, cut short by the timeout, after a chunk of something
\* else, or before one
Replies ==
    { Buffered(Garbage), Late(Garbage),
      Buffered(ReplyOk), Late(ReplyOk), Buffered(ReplyNoModel),
      Buffered(ReplyBadFw), Buffered(ReplyOther), Late(ReplyPartial),
      Late(Garbage) \o Late(ReplyOk), Late(ReplyTruncated) \o Late(Garbage) }

\* The baud rates at which a device may answer the challenge with comok.
DeviceBauds == {9600, 115200}
\* open() may fail at the first speed tried on a port (the port cannot be
\* opened) and at a rate a driver may not support.
UnsupportedBauds == {31250}

\* what self.ser.read(42) returns: the confirmation, or nothing on a timeout
Drains == {0, 42}

\* lines 82 to 90 on the accepted response data: the number of statements
\* that complete, and the values they assign ("-" where none is assigned)
Decode(data) ==
    LET f == Fields(data)
        n == ParsedLines(data)
    IN  [n |-> n,
         touch |-> IF n >= 2
                   THEN (IF IntVal(f[1]) # 0 THEN "True" ELSE "False")
                   ELSE "-",
         address |-> IF n >= 3 THEN IntVal(AddressPart(f)) ELSE 0,
         model |-> IF n >= 4 THEN f[3] ELSE <<>>,
         fwVersion |-> IF n >= 5 THEN IntVal(f[4]) ELSE 0,
         mcuCode |-> IF n >= 6 THEN IntVal(f[5]) ELSE 0,
         serialNum |-> IF n >= 7 THEN f[6] ELSE <<>>,
         flashSize |-> IF n >= 8 THEN IntVal(f[7]) ELSE 0]

\* the responses the read loop can end with, by the verdict of line 76, with
\* the bytes received and whether a device answered, and for the accepted
\* ones what lines 82 to 90 make of them
Rejections ==
    {[data |-> Response(r), received |-> Received(r), device |-> r \in Replies] :
        r \in {x \in Noise \cup Replies : ~Accepted(Response(x))}}
Decoded ==
    {[data |-> Response(r), received |-> Received(r), v |-> Decode(Response(r))] :
        r \in {x \in Noise \cup Replies : Accepted(Response(x))}}

\* The TFT files: the size their header states and their actual length.
\* getFileSize needs the file to reach the end of the size field.
HeaderEnd == HeaderOffset + 4
\* files as long as their header says, of up to MaxBlocks blocks, and one of
\* 512 blocks
Sizes ==
    {k * BlockSize + d : k \in 0..(MaxBlocks - 1), d \in {1, BlockSize}}
        \cup {512 * BlockSize}
WholeFiles == {[size |-> s, len |-> s] : s \in Sizes \ 0..(HeaderEnd - 1)}
\* a file whose header states nothing, a file cut after the size field, and
\* a file without one
OddFiles ==
    {[size |-> 0, len |-> HeaderEnd],
     [size |-> BlockSize + 1, len |-> HeaderEnd],
     [size |-> 0, len |-> 0]}
Files == WholeFiles \cup OddFiles

\* struct.pack("<I", k), k < 2^32
PackLE(k) ==
    <<k % 256, (k \div 256) % 256, (k \div 65536) % 256, (k \div 16777216) % 256>>

\* The positions a device may ask to continue from after the first block of
\* a file whose header states size.
Seeks(size) ==
    {1, size, size + 1, 256 * BlockSize}

\* What self.ser.read(5) may return after the first block: nothing or too
\* little on a timeout, a wrong first byte, the all-accepted marker, a seek.
FirstResponses(size) ==
    {<<>>, <<8, 0, 0>>, <<5, 0, 0, 0, 0>>, NXALL}
        \cup {<<8>> \o PackLE(k) : k \in Seeks(size)}

\* What self.ser.read_until(NXACK) may return: it ends with the first 0x05
\* received, or with whatever arrived before the timeout.
AckReads == {<<>>, <<5>>, <<26>>, <<26, 5>>}


(***************************************************************************)
(* State.                                                                  *)
(***************************************************************************)
VARIABLES
    ctor,            \* the arguments __init__ was called with
    self,            \* the fields of the Nexus object
    ser,             \* self.ser: is_open, port, baudrate, timeout
    pc,              \* "idle", "scan" (in connect's loops), "reopen" (upload
                     \* at line 143), "loop" (at upload's loop condition)
    op,              \* the method called last: "none", "connect", "sendCmd", "upload"
    ret,             \* how it ended: "none", "True", "False", or the exception
    calls,           \* method calls made so far
    lastConnect,     \* how the most recent connect() ended
    defaultSpeeds,   \* connect's local list, after the preferred speed is placed
    portIdx,         \* position of connect's outer loop in self.ports
    speedIdx,        \* position of connect's inner loop in defaultSpeeds
    attempts,        \* the attempts of the current or last connect(), in order
    written,         \* the writes of the current or last sendCmd()/upload()
    fileSize,        \* upload: the size read from the header
    fileLen,         \* upload: the length of the file itself
    cursor,          \* upload: f.tell()
    remainingBlocks, \* upload's locals
    firstBlock,
    progress,
    lastProgress,
    proceed,         \* upload: the response to the first block, <<>> before it
    emitted,         \* the progress values printed by the current or last upload()
    data,            \* connect: the response the last attempt judged (line 76)
    received,        \* connect: all the bytes the reads of that attempt returned
    a,               \* ack: what the last read_until(NXACK) returned
    acks,            \* calls of ack() in the current or last upload()
    hot              \* the port or baud rate was assigned while the port was open

vars ==
    <<ctor, self, ser, pc, op, ret, calls, lastConnect, defaultSpeeds, portIdx,
      speedIdx, attempts, written, fileSize, fileLen, cursor, remainingBlocks,
      firstBlock, progress, lastProgress, proceed, emitted, data, received,
      a, acks, hot>>

connectLocals == <<defaultSpeeds, portIdx, speedIdx, data, received>>
uploadLocals ==
    <<fileSize, fileLen, cursor, remainingBlocks, firstBlock, progress,
      lastProgress, proceed, emitted, a, acks>>

(***************************************************************************)
(* Nexus.__init__ with connect=False; connect() is then a call like any    *)
(* other.  serial.Serial() is closed, with no port.                        *)
(***************************************************************************)
Init ==
    /\ \E available \in AvailablePorts :
       \E port \in {p \in PortArgs : p = "" \/ InList(available, p)} :
       \E us \in UploadSpeedArgs :
       \E cs \in ConnectSpeedArgs :
          /\ <<port, us, cs>> \in Constructions
          /\ ctor = [port |-> port, uploadSpeed |-> us, connectSpeed |-> cs]
          /\ self = [uploadSpeed |-> us, connectSpeed |-> cs,
                     connected |-> FALSE, touch |-> "None", address |-> 0,
                     model |-> <<>>, fwVersion |-> 0 - 1, mcuCode |-> 0 - 1,
                     serialNum |-> <<>>, flashSize |-> 0 - 1,
                     ports |-> PortOrder(available, port), port |-> "unset"]
    /\ ser = [is_open |-> FALSE, port |-> "None", baudrate |-> 9600, timeout |-> 0]
    /\ pc = "idle"
    /\ op = "none"
    /\ ret = "none"
    /\ calls = 0
    /\ lastConnect = "none"
    /\ defaultSpeeds = DefaultSpeeds
    /\ portIdx = 1
    /\ speedIdx = 1
    /\ attempts = <<>>
    /\ written = <<>>
    /\ fileSize = 0
    /\ fileLen = 0
    /\ cursor = 0
    /\ remainingBlocks = 0
    /\ firstBlock = TRUE
    /\ progress = 0
    /\ lastProgress = 0
    /\ proceed = <<>>
    /\ emitted = <<>>
    /\ data = <<>>
    /\ received = <<>>
    /\ a = <<>>
    /\ acks = 0
    /\ hot = FALSE

(***************************************************************************)
(* The locals and the logs belong to the call in progress or to the last   *)
(* one: each call starts with those of the other methods cleared.          *)
(***************************************************************************)
NoConnect ==
    /\ defaultSpeeds' = DefaultSpeeds
    /\ portIdx' = 1
    /\ speedIdx' = 1
    /\ attempts' = <<>>
    /\ data' = <<>>
    /\ received' = <<>>

NoUpload ==
    /\ fileSize' = 0
    /\ fileLen' = 0
    /\ cursor' = 0
    /\ remainingBlocks' = 0
    /\ firstBlock' = TRUE
    /\ progress' = 0
    /\ lastProgress' = 0
    /\ proceed' = <<>>
    /\ emitted' = <<>>
    /\ a' = <<>>
    /\ acks' = 0

(***************************************************************************)
(* Nexus.connect.                                                          *)
(***************************************************************************)
\* lines 47 to 51, and the entry into the loops of line 53
ConnectBegin ==
    /\ pc = "idle"
    /\ calls < MaxCalls
    /\ calls' = calls + 1
    /\ op' = "connect"
    /\ ret' = "none"
    /\ pc' = "scan"
    /\ defaultSpeeds' = SpeedOrder(self.connectSpeed)
    /\ portIdx' = 1
    /\ speedIdx' = 1
    /\ attempts' = <<>>
    /\ data' = <<>>
    /\ received' = <<>>
    /\ written' = <<>>
    /\ NoUpload
    /\ UNCHANGED <<ctor, hot, self, ser, lastConnect>>

\* the loop positions after "break" (line 64) leaves the inner loop
NextOnBreak(p, s) == <<p + 1, 1>>

NextOnContinueAsBreak(p, s) == <<p + 1, 1>>

\* the loop positions after "continue" (line 78)
NextOnContinue(p, s) ==
    IF s < Len(defaultSpeeds) THEN <<p, s + 1>> ELSE <<p + 1, 1>>

SerCloseSkipped(s) == s

\* self.ser.close()
SerClose(s) == [s EXCEPT !.is_open = FALSE]

\* self.ser after lines 57 to 62
Configured(port, speed, opened) ==
    [SerClose(ser) EXCEPT !.port = port, !.baudrate = speed,
                          !.timeout = ScanTimeout(speed), !.is_open = opened]

Attempt(outcome, drained) ==
    [port |-> self.ports[portIdx], speed |-> defaultSpeeds[speedIdx],
     outcome |-> outcome, drained |-> drained]

\* lines 56 to 64: self.ser.open() raises
ScanOpenFails ==
    /\ pc = "scan"
    /\ portIdx <= Len(self.ports)
    /\ speedIdx = 1 \/ defaultSpeeds[speedIdx] \in UnsupportedBauds
    /\ ser' = Configured(self.ports[portIdx], defaultSpeeds[speedIdx], FALSE)
    /\ attempts' = Append(attempts, Attempt("open failed", 0))
    /\ portIdx' = NextOnBreak(portIdx, speedIdx)[1]
    /\ speedIdx' = NextOnBreak(portIdx, speedIdx)[2]
    /\ hot' = (hot \/ SerClose(ser).is_open)
    /\ UNCHANGED <<ctor, self, pc, op, ret, calls, lastConnect, defaultSpeeds,
                   data, received, written, uploadLocals>>

\* lines 56 to 78: the port opens and the response is not understood
ScanRejected ==
    /\ pc = "scan"
    /\ portIdx <= Len(self.ports)
    /\ \E r \in Rejections :
          /\ r.device => defaultSpeeds[speedIdx] \in DeviceBauds
          /\ data' = r.data
          /\ received' = r.received
    /\ ser' = Configured(self.ports[portIdx], defaultSpeeds[speedIdx], TRUE)
    /\ attempts' = Append(attempts, Attempt("rejected", 0))
    /\ portIdx' = NextOnContinue(portIdx, speedIdx)[1]
    /\ speedIdx' = NextOnContinue(portIdx, speedIdx)[2]
    /\ hot' = (hot \/ SerClose(ser).is_open)
    /\ UNCHANGED <<ctor, self, pc, op, ret, calls, lastConnect, defaultSpeeds,
                   written, uploadLocals>>

\* lines 81 to 96: the object after an accepted response decoded as d arrived
\* at port and speed; the statements up to the one that raises take effect
Parsed(d, port, speed) ==
    [self EXCEPT
       !.connected = TRUE,
       !.touch = IF d.n >= 2 THEN d.touch ELSE @,
       !.address = IF d.n >= 3 THEN d.address ELSE @,
       !.model = IF d.n >= 4 THEN d.model ELSE @,
       !.fwVersion = IF d.n >= 5 THEN d.fwVersion ELSE @,
       !.mcuCode = IF d.n >= 6 THEN d.mcuCode ELSE @,
       !.serialNum = IF d.n >= 7 THEN d.serialNum ELSE @,
       !.flashSize = IF d.n >= 8 THEN d.flashSize ELSE @,
       !.port = IF d.n >= 8 THEN port ELSE @,
       !.connectSpeed = IF d.n >= 8 THEN speed ELSE @,
       !.uploadSpeed = IF d.n >= 8 /\ d.model # <<>> /\ @ = 0 THEN speed ELSE @]

\* how connect() ends on an accepted response decoded as d
ParseResult(d) ==
    IF d.n < 8 THEN "parse error"
    ELSE IF d.model = <<>> THEN "Invalid model"
    ELSE "True"

\* lines 56 to 98: the port opens and the response is accepted
ScanAccepted ==
    /\ pc = "scan"
    /\ portIdx <= Len(self.ports)
    /\ defaultSpeeds[speedIdx] \in DeviceBauds
    /\ \E r \in Decoded, drained \in Drains :
          /\ self' = Parsed(r.v, self.ports[portIdx], defaultSpeeds[speedIdx])
          /\ ret' = ParseResult(r.v)
          /\ lastConnect' = ParseResult(r.v)
          /\ attempts' = Append(attempts, Attempt("accepted", drained))
          /\ data' = r.data
          /\ received' = r.received
    /\ ser' = Configured(self.ports[portIdx], defaultSpeeds[speedIdx], TRUE)
    /\ pc' = "idle"
    /\ hot' = (hot \/ SerClose(ser).is_open)
    /\ UNCHANGED <<ctor, op, calls, defaultSpeeds, portIdx, speedIdx, written,
                   uploadLocals>>

\* line 100: the outer loop is exhausted
ConnectNotFound ==
    /\ pc = "scan"
    /\ portIdx > Len(self.ports)
    /\ pc' = "idle"
    /\ ret' = "False"
    /\ lastConnect' = "False"
    /\ UNCHANGED <<ctor, hot, self, ser, op, calls, connectLocals, attempts, written,
                   uploadLocals>>

(***************************************************************************)
(* Nexus.sendCmd.                                                          *)
(***************************************************************************)
\* lines 106 to 113: the bytes written, kept as the command, its arguments,
\* the address prefixed (0: none), and the port and rate they are written at
\* (struct.pack("<H", ...) raises above 65535; the replies drawn hold 1234)
Command(cmd, args) ==
    [kind |-> "cmd", cmd |-> cmd, args |-> args, prefix |-> self.address,
     port |-> ser.port, baud |-> ser.baudrate]

UserCmds == {"page 0"}

\* line 104
SendCmdNotConnected ==
    /\ pc = "idle"
    /\ calls < MaxCalls
    /\ ~self.connected
    /\ calls' = calls + 1
    /\ op' = "sendCmd"
    /\ ret' = "Cannot send commands if not connected"
    /\ written' = <<>>
    /\ NoConnect
    /\ NoUpload
    /\ UNCHANGED <<ctor, hot, self, ser, pc, lastConnect>>

\* line 113 on a closed port: serial's write raises
SendCmdPortClosed ==
    /\ pc = "idle"
    /\ calls < MaxCalls
    /\ self.connected
    /\ ~ser.is_open
    /\ calls' = calls + 1
    /\ op' = "sendCmd"
    /\ ret' = "port not open"
    /\ written' = <<>>
    /\ NoConnect
    /\ NoUpload
    /\ UNCHANGED <<ctor, hot, self, ser, pc, lastConnect>>

\* lines 106 to 113
SendCmdWrites ==
    /\ pc = "idle"
    /\ calls < MaxCalls
    /\ self.connected
    /\ ser.is_open
    /\ calls' = calls + 1
    /\ op' = "sendCmd"
    /\ ret' = "None"
    /\ \E cmd \in UserCmds : written' = <<Command(cmd, <<>>)>>
    /\ NoConnect
    /\ NoUpload
    /\ UNCHANGED <<ctor, hot, self, ser, pc, lastConnect>>

(***************************************************************************)
(* Nexus.ack and Nexus.upload.                                             *)
(***************************************************************************)
AckedOnAnyByte(read) == read # <<>>

\* not (not a.endswith(self.NXACK))
Acked(read) == EndsWith(read, NXACK)

\* the reads that ack() returns from
AckedReads == {read \in AckReads : Acked(read)}

\* a call of upload() that raises before its loop
UploadRaises(why) ==
    /\ pc = "idle"
    /\ calls < MaxCalls
    /\ calls' = calls + 1
    /\ op' = "upload"
    /\ ret' = why
    /\ NoConnect
    /\ UNCHANGED <<ctor, hot, self, pc, lastConnect>>

\* line 129
UploadNotConnected ==
    /\ ~self.connected
    /\ UploadRaises("Successful connection required for upload")
    /\ written' = <<>>
    /\ NoUpload
    /\ UNCHANGED ser

\* line 131: getFileSize on a file that ends before the size field does
UploadBadFile ==
    /\ self.connected
    /\ \E file \in Files : file.len < HeaderEnd
    /\ UploadRaises("struct.error")
    /\ written' = <<>>
    /\ NoUpload
    /\ UNCHANGED ser

\* line 133 on a closed port: the first sendCmd's write raises
UploadPortClosed ==
    /\ self.connected
    /\ ~ser.is_open
    /\ \E file \in Files :
          /\ file.len >= HeaderEnd
          /\ fileSize' = file.size
          /\ fileLen' = file.len
    /\ UploadRaises("port not open")
    /\ written' = <<>>
    /\ cursor' = 0
    /\ remainingBlocks' = 0
    /\ firstBlock' = TRUE
    /\ progress' = 0
    /\ lastProgress' = 0
    /\ proceed' = <<>>
    /\ emitted' = <<>>
    /\ a' = <<>>
    /\ acks' = 0
    /\ UNCHANGED ser

\* lines 133 to 139: the three setup commands and the upload initiation
Negotiation(size) ==
    <<Command("bs=42", <<>>), Command("dims=100", <<>>),
      Command("sleep=0", <<>>),
      Command("whmi-wris", <<size, self.uploadSpeed, 1>>)>>

ClosedAtConnectSpeed == [SerClose(ser) EXCEPT !.timeout = UploadTimeout]

\* self.ser after lines 140 to 142: closed, set to the upload speed
Closed ==
    [SerClose(ser) EXCEPT !.baudrate = self.uploadSpeed,
                          !.timeout = UploadTimeout]

\* lines 128 to 142 of a call on a connected object with an open port: the
\* size is read, the commands are written, the port is closed
UploadNegotiates ==
    /\ pc = "idle"
    /\ calls < MaxCalls
    /\ self.connected
    /\ ser.is_open
    /\ \E file \in Files :
          /\ file.len >= HeaderEnd
          /\ fileSize' = file.size
          /\ fileLen' = file.len
          /\ written' = Negotiation(file.size)
    /\ ser' = Closed
    /\ calls' = calls + 1
    /\ op' = "upload"
    /\ ret' = "none"
    /\ pc' = "reopen"
    /\ cursor' = 0
    /\ remainingBlocks' = 0
    /\ firstBlock' = TRUE
    /\ progress' = 0
    /\ lastProgress' = 0
    /\ proceed' = <<>>
    /\ emitted' = <<>>
    /\ a' = <<>>
    /\ acks' = 0
    /\ hot' = (hot \/ SerClose(ser).is_open)
    /\ NoConnect
    /\ UNCHANGED <<ctor, self, lastConnect>>

\* lines 143 to 146: the port does not reopen at the upload speed
UploadReopenFails ==
    /\ pc = "reopen"
    /\ pc' = "idle"
    /\ ret' = "Cannot reopen port at upload baudrate"
    /\ UNCHANGED <<ctor, hot, self, ser, op, calls, lastConnect, connectLocals,
                   attempts, written, uploadLocals>>

\* lines 143 to 147: the port reopens, the speed switch is not acknowledged
UploadNoAck ==
    /\ pc = "reopen"
    /\ \E x \in AckReads \ AckedReads : a' = x
    /\ acks' = acks + 1
    /\ ser' = [ser EXCEPT !.is_open = TRUE]
    /\ pc' = "idle"
    /\ ret' = "Expected acknowledge"
    /\ UNCHANGED <<ctor, hot, self, op, calls, lastConnect, connectLocals, attempts,
                   written, fileSize, fileLen, cursor, remainingBlocks,
                   firstBlock, progress, lastProgress, proceed, emitted>>

\* lines 143 to 154: the speed switch is acknowledged, the loop is entered
UploadStart ==
    /\ pc = "reopen"
    /\ \E x \in AckedReads : a' = x
    /\ acks' = acks + 1
    /\ ser' = [ser EXCEPT !.is_open = TRUE]
    /\ pc' = "loop"
    /\ remainingBlocks' = CeilDiv(fileSize, BlockSize)
    /\ UNCHANGED <<ctor, hot, self, op, ret, calls, lastConnect, connectLocals,
                   attempts, written, fileSize, fileLen, cursor, firstBlock,
                   progress, lastProgress, proceed, emitted>>

IsBlock(w) == w.kind = "block"

Blocks == SelectSeq(written, IsBlock)

BlockLenToEnd == IF cursor >= fileLen THEN 0 ELSE fileLen - cursor

\* len(f.read(blockSize)) at the cursor: short at the end of the file, and
\* nothing beyond it
BlockLen ==
    IF cursor >= fileLen THEN 0
    ELSE IF fileLen - cursor < BlockSize THEN fileLen - cursor
    ELSE BlockSize

\* line 156
Block ==
    [kind |-> "block", offset |-> cursor, size |-> BlockLen,
     port |-> ser.port, baud |-> ser.baudrate]

FirstBlockRejectedByLength(p) == Len(p) # Len(NXALL)

\* line 163
FirstBlockRejected(p) == Len(p) # Len(NXALL) \/ ~StartsWith(p, <<8>>)

RemainingFromStart(nextPos) == CeilDiv(fileSize, BlockSize) - 1

\* line 168
RemainingAfterSeek(nextPos) == CeilDiv(fileSize - nextPos, BlockSize)

\* line 174
Percent(pos) == (100 * pos) \div fileSize

\* lines 174 to 177 with f.tell() = pos
Report(pos) ==
    /\ progress' = Percent(pos)
    /\ lastProgress' = Percent(pos)
    /\ emitted' = IF Percent(pos) # lastProgress
                  THEN Append(emitted, Percent(pos))
                  ELSE emitted

\* lines 156 to 164: the first block is written, its response is rejected
FirstBlockFails ==
    /\ pc = "loop"
    /\ remainingBlocks # 0
    /\ firstBlock
    /\ Len(Blocks) < MaxWrites
    /\ \E p \in FirstResponses(fileSize) :
          /\ FirstBlockRejected(p)
          /\ proceed' = p
    /\ written' = Append(written, Block)
    /\ cursor' = cursor + BlockLen
    /\ remainingBlocks' = remainingBlocks - 1
    /\ firstBlock' = FALSE
    /\ ser' = [ser EXCEPT !.timeout = FirstBlockTimeout]
    /\ pc' = "idle"
    /\ ret' = "First block acknowledge (0x08) not received"
    /\ UNCHANGED <<ctor, hot, self, op, calls, lastConnect, connectLocals, attempts,
                   fileSize, fileLen, progress, lastProgress, emitted, a,
                   acks>>

\* lines 156 to 177: the first block is written, all of it is accepted
FirstBlockAccepted ==
    /\ pc = "loop"
    /\ remainingBlocks # 0
    /\ firstBlock
    /\ Len(Blocks) < MaxWrites
    /\ \E p \in FirstResponses(fileSize) :
          /\ ~FirstBlockRejected(p)
          /\ p = NXALL
          /\ proceed' = p
    /\ written' = Append(written, Block)
    /\ cursor' = cursor + BlockLen
    /\ remainingBlocks' = remainingBlocks - 1
    /\ firstBlock' = FALSE
    /\ ser' = [ser EXCEPT !.timeout = UploadTimeout]
    /\ Report(cursor + BlockLen)
    /\ UNCHANGED <<ctor, hot, self, pc, op, ret, calls, lastConnect, connectLocals,
                   attempts, fileSize, fileLen, a, acks>>

\* lines 156 to 177: the first block is written, the device asks to skip
FirstBlockSkips ==
    /\ pc = "loop"
    /\ remainingBlocks # 0
    /\ firstBlock
    /\ Len(Blocks) < MaxWrites
    /\ \E p \in FirstResponses(fileSize) :
          /\ ~FirstBlockRejected(p)
          /\ p # NXALL
          /\ proceed' = p
          /\ cursor' = UnpackLE(p)
          /\ remainingBlocks' = RemainingAfterSeek(UnpackLE(p))
          /\ Report(UnpackLE(p))
    /\ written' = Append(written, Block)
    /\ firstBlock' = FALSE
    /\ ser' = [ser EXCEPT !.timeout = UploadTimeout]
    /\ UNCHANGED <<ctor, hot, self, pc, op, ret, calls, lastConnect, connectLocals,
                   attempts, fileSize, fileLen, a, acks>>

\* lines 156 to 177: a later block is written and acknowledged
BlockAcked ==
    /\ pc = "loop"
    /\ remainingBlocks # 0
    /\ ~firstBlock
    /\ Len(Blocks) < MaxWrites
    /\ \E x \in AckedReads : a' = x
    /\ acks' = acks + 1
    /\ written' = Append(written, Block)
    /\ cursor' = cursor + BlockLen
    /\ remainingBlocks' = remainingBlocks - 1
    /\ Report(cursor + BlockLen)
    /\ UNCHANGED <<ctor, hot, self, ser, pc, op, ret, calls, lastConnect,
                   connectLocals, attempts, fileSize, fileLen, firstBlock,
                   proceed>>

\* lines 156 to 173: a later block is written and not acknowledged
BlockNotAcked ==
    /\ pc = "loop"
    /\ remainingBlocks # 0
    /\ ~firstBlock
    /\ Len(Blocks) < MaxWrites
    /\ \E x \in AckReads \ AckedReads : a' = x
    /\ acks' = acks + 1
    /\ written' = Append(written, Block)
    /\ cursor' = cursor + BlockLen
    /\ remainingBlocks' = remainingBlocks - 1
    /\ pc' = "idle"
    /\ ret' = "Expected acknowledge"
    /\ UNCHANGED <<ctor, hot, self, ser, op, calls, lastConnect, connectLocals,
                   attempts, fileSize, fileLen, firstBlock, progress,
                   lastProgress, proceed, emitted>>

\* line 155: no block remains, upload() returns
UploadDone ==
    /\ pc = "loop"
    /\ remainingBlocks = 0
    /\ pc' = "idle"
    /\ ret' = "None"
    /\ UNCHANGED <<ctor, hot, self, ser, op, calls, lastConnect, connectLocals,
                   attempts, written, uploadLocals>>

Next ==
    \/ ConnectBegin
    \/ ScanOpenFails
    \/ ScanRejected
    \/ ScanAccepted
    \/ ConnectNotFound
    \/ SendCmdNotConnected
    \/ SendCmdPortClosed
    \/ SendCmdWrites
    \/ UploadNotConnected
    \/ UploadBadFile
    \/ UploadPortClosed
    \/ UploadNegotiates
    \/ UploadReopenFails
    \/ UploadNoAck
    \/ UploadStart
    \/ FirstBlockFails
    \/ FirstBlockAccepted
    \/ FirstBlockSkips
    \/ BlockAcked
    \/ BlockNotAcked
    \/ UploadDone

Spec == Init /\ [][Next]_vars

(***************************************************************************)
(* The claims.                                                             *)
(***************************************************************************)
LastAttempt == attempts[Len(attempts)]

PortPos(port) == CHOOSE i \in 1..Len(self.ports) : self.ports[i] = port

SpeedPos(speed) == CHOOSE i \in 1..Len(defaultSpeeds) : defaultSpeeds[i] = speed

\* r = ceil(x / BlockSize), stated without a division
IsCeil(r, x) == r * BlockSize >= x /\ (r - 1) * BlockSize < x

\* C1: the connected flag is true only if a comok response has been parsed
\* into all the identity fields and the parsed model is not empty.
C1_ConnectedOnlyWhenParsed ==
    self.connected =>
        /\ self.model # <<>>
        /\ self.touch # "None"
        /\ self.fwVersion # 0 - 1
        /\ self.mcuCode # 0 - 1
        /\ self.flashSize # 0 - 1

\* C2: sendCmd() and upload() write nothing unless the most recent connect()
\* succeeded.
C2_WritesOnlyAfterConnectSucceeded ==
    (op \in {"sendCmd", "upload"} /\ lastConnect # "True") => written = <<>>

\* C3: after an open failure the scan continues with the next speed of the
\* same port, and connect() returns False only after every combination of
\* port and speed has been attempted.
C3_OpenFailureSkipsToNextSpeed ==
    /\ \A i \in 1..(Len(attempts) - 1) :
          (/\ attempts[i].outcome = "open failed"
           /\ SpeedPos(attempts[i].speed) < Len(defaultSpeeds))
          => /\ attempts[i + 1].port = attempts[i].port
             /\ attempts[i + 1].speed =
                    defaultSpeeds[SpeedPos(attempts[i].speed) + 1]
    /\ (op = "connect" /\ ret = "False") =>
          \A i \in 1..Len(self.ports), j \in 1..Len(defaultSpeeds) :
             \E k \in 1..Len(attempts) :
                /\ attempts[k].port = self.ports[i]
                /\ attempts[k].speed = defaultSpeeds[j]

\* C4: the attempts of a connect() come port by port (a specified port
\* first) and, on a port, speed by speed; a response that is not understood
\* is followed by the next speed of the same port (the next port after the
\* last speed); an accepted response ends the scan, and the port and
\* connectSpeed recorded by a successful connect() are those of its last
\* attempt.
C4_ScanOrderAndFirstSuccess ==
    /\ (ctor.port # "" /\ attempts # <<>>) => attempts[1].port = ctor.port
    /\ attempts # <<>> =>
          /\ attempts[1].port = self.ports[1]
          /\ attempts[1].speed = defaultSpeeds[1]
    /\ \A i \in 1..(Len(attempts) - 1) :
          LET p == PortPos(attempts[i].port)
              s == SpeedPos(attempts[i].speed)
              q == PortPos(attempts[i + 1].port)
              t == SpeedPos(attempts[i + 1].speed)
          IN  /\ p < q \/ (p = q /\ s < t)
              /\ attempts[i].outcome # "accepted"
              /\ attempts[i].outcome = "rejected" =>
                    IF s < Len(defaultSpeeds)
                    THEN q = p /\ t = s + 1
                    ELSE q = p + 1 /\ t = 1
    /\ (attempts # <<>> /\ LastAttempt.outcome = "accepted") => pc # "scan"
    /\ (op = "connect" /\ ret = "True") =>
          /\ attempts # <<>>
          /\ LastAttempt.outcome = "accepted"
          /\ self.port = LastAttempt.port
          /\ self.connectSpeed = LastAttempt.speed

\* a successful connect() whose accepted attempt, on the second port, came
\* after a response that was not understood, with a port specified
C4_Witness ==
    /\ op = "connect"
    /\ ret = "True"
    /\ ctor.port = "ttyUSB0"
    /\ self.port = "ttyS0"
    /\ \E i \in 1..Len(attempts) : attempts[i].outcome = "rejected"

\* C5: inside connect() the speed list is the preferred speed followed by
\* the defaults without it, in their order; the defaults when none is
\* preferred.
C5_SpeedOrder ==
    pc = "scan" =>
        LET P == self.connectSpeed
            Other(x) == x # P
        IN  IF P = 0 THEN defaultSpeeds = DefaultSpeeds
            ELSE /\ defaultSpeeds[1] = P
                 /\ Tail(defaultSpeeds) = SelectSeq(DefaultSpeeds, Other)
                 /\ Len(defaultSpeeds) =
                       IF P \in {DefaultSpeeds[i] : i \in 1..Len(DefaultSpeeds)}
                       THEN Len(DefaultSpeeds)
                       ELSE Len(DefaultSpeeds) + 1

\* a scan with a preferred speed that the defaults hold further down
C5_Witness ==
    /\ pc = "scan"
    /\ self.connectSpeed = 115200
    /\ defaultSpeeds[1] = 115200
    /\ defaultSpeeds[2] = 2400
    /\ Len(attempts) > 1

\* C6: after a successful connect() the upload speed is the one requested
\* from the constructor, or the connect speed of that connect() when none
\* was requested.
C6_UploadSpeedFollowsConnect ==
    (op = "connect" /\ ret = "True") =>
        self.uploadSpeed =
            IF ctor.uploadSpeed # 0 THEN ctor.uploadSpeed ELSE self.connectSpeed

\* C7: a response to the first block that is shorter than 5 bytes or does
\* not start with 0x08 ends upload() with an error, the first block being
\* the only block written.
C7_FirstBlockRejectionStops ==
    (op = "upload" /\ ~firstBlock /\ (Len(proceed) < 5 \/ proceed[1] # 8)) =>
        /\ pc = "idle"
        /\ ret = "First block acknowledge (0x08) not received"
        /\ Len(Blocks) = 1

\* upload() ended by a 5-byte response with a wrong first byte
C7_Witness ==
    /\ op = "upload"
    /\ ~firstBlock
    /\ proceed = <<5, 0, 0, 0, 0>>
    /\ pc = "idle"
    /\ Len(Blocks) = 1

\* C8: before the first block the remaining block count is
\* ceil(fileSize / 4096); after a first response 08 00 00 00 00 the cursor
\* is at the end of the first block, with no seek; after another response
\* starting with 0x08 the cursor is at the little-endian value K of its
\* bytes 1 to 4 and the count is ceil((fileSize - K) / 4096), which is 256
\* for a size of 2097152 and K = 1048576.
C8_RemainingBlocks ==
    /\ (pc = "loop" /\ firstBlock) => IsCeil(remainingBlocks, fileSize)
    /\ (pc = "loop" /\ ~firstBlock /\ Len(Blocks) = 1) =>
          LET K == proceed[2] + 256 * proceed[3] + 65536 * proceed[4]
                       + 16777216 * proceed[5]
          IN  IF proceed = <<8, 0, 0, 0, 0>>
              THEN /\ cursor = Blocks[1].offset + Blocks[1].size
                   /\ Blocks[1].offset = 0
                   /\ IsCeil(remainingBlocks + 1, fileSize)
              ELSE /\ cursor = K
                   /\ IsCeil(remainingBlocks, fileSize - K)
    /\ (/\ pc = "loop"
        /\ ~firstBlock
        /\ Len(Blocks) = 1
        /\ fileSize = 2097152
        /\ proceed = <<8, 0, 0, 16, 0>>)
       => (cursor = 1048576 /\ remainingBlocks = 256)

\* the loop after the device asked to continue at 1048576 of 2097152 bytes
C8_Witness ==
    /\ pc = "loop"
    /\ ~firstBlock
    /\ Len(Blocks) = 1
    /\ fileSize = 2097152
    /\ proceed = <<8, 0, 0, 16, 0>>
    /\ remainingBlocks = 256

\* C9: whenever the loop condition is evaluated the remaining block count
\* is ceil((fileSize - cursor) / 4096), and it is never negative.  Stated
\* for the uploads that follow a successful connect(), of a file as long as
\* its header says.
C9_RemainingMatchesCursor ==
    (pc = "loop" /\ lastConnect = "True" /\ fileLen = fileSize) =>
        /\ IsCeil(remainingBlocks, fileSize - cursor)
        /\ remainingBlocks >= 0

\* C10: the progress values printed are within 0..100 and each is greater
\* than the one printed before it.  Stated for the uploads that follow a
\* successful connect(), of a file as long as its header says.
C10_ProgressMonotoneInRange ==
    (op = "upload" /\ lastConnect = "True" /\ fileLen = fileSize) =>
        \A i \in 1..Len(emitted) :
            /\ emitted[i] \in 0..100
            /\ i > 1 => emitted[i - 1] < emitted[i]

\* read ends with the acknowledge byte 0x05
EndsWithAck(read) == read # <<>> /\ read[Len(read)] = 5

\* the position the response p to the first block asks to continue from
SeekPos(p) == p[2] + 256 * p[3] + 65536 * p[4] + 16777216 * p[5]

\* C11: in upload() every block after the first is followed by one call of
\* ack() before the next block is written (with the one of the speed switch
\* and none for the first block, as many calls as blocks); a read that does
\* not end with 0x05 ends upload() with an error, no block following; and
\* upload() goes on or returns normally only with the last block
\* acknowledged.
C11_EveryLaterBlockAcknowledged ==
    op = "upload" =>
        /\ Len(Blocks) >= 1 => acks = Len(Blocks)
        /\ (Len(Blocks) >= 2 /\ ~EndsWithAck(a)) =>
              (pc = "idle" /\ ret = "Expected acknowledge")
        /\ (Len(Blocks) >= 2 /\ (pc = "loop" \/ ret = "None")) => EndsWithAck(a)

\* upload() returned after three blocks, the last acknowledged by a read
\* that held another byte before the 0x05
C11_Witness ==
    /\ op = "upload"
    /\ ret = "None"
    /\ Len(Blocks) = 3
    /\ a = <<26, 5>>

\* C12: upload() writes the initiation command with (fileSize, uploadSpeed,
\* 1), closes the port, reopens it at the upload speed with a timeout of
\* 0.5 s and reads an acknowledgment; a block is written only after that
\* acknowledgment, at the upload speed; when the port does not reopen or
\* the read does not end with 0x05, upload() fails with no block written.
C12_SpeedSwitchOrder ==
    op = "upload" =>
        /\ pc = "reopen" =>
              /\ Len(written) = 4
              /\ written[4].cmd = "whmi-wris"
              /\ written[4].args = <<fileSize, self.uploadSpeed, 1>>
              /\ ~ser.is_open
              /\ ser.baudrate = self.uploadSpeed
              /\ ser.timeout = 500000
              /\ acks = 0
        /\ (pc = "loop" /\ Blocks = <<>>) =>
              /\ Len(written) = 4
              /\ ser.is_open
              /\ ser.baudrate = self.uploadSpeed
              /\ ser.timeout = 500000
              /\ acks = 1
              /\ EndsWithAck(a)
        /\ Blocks # <<>> =>
              /\ acks >= 1
              /\ written[4].cmd = "whmi-wris"
              /\ written[5].kind = "block"
              /\ \A i \in 1..Len(Blocks) : Blocks[i].baud = self.uploadSpeed
        /\ ret = "Cannot reopen port at upload baudrate" =>
              (Blocks = <<>> /\ acks = 0 /\ ~ser.is_open)
        /\ (ret = "Expected acknowledge" /\ acks = 1) =>
              (Blocks = <<>> /\ ~EndsWithAck(a))

\* blocks written at 115200 after the commands were written at 9600
C12_Witness ==
    /\ op = "upload"
    /\ pc = "loop"
    /\ Len(Blocks) = 2
    /\ written[4].baud = 9600
    /\ Blocks[1].baud = 115200

\* C13: the port and the baud rate of self.ser are assigned only while it
\* is closed, in the scan of connect() and in the speed switch of upload():
\* the close comes first, then the assignments, then the open.  (The
\* timeout, which lines 161 and 170 assign on the open port around the first
\* response, is not part of what the claim is about.)
C13_ReconfiguredOnlyWhileClosed ==
    /\ ~hot
    /\ pc = "reopen" => ~ser.is_open

\* a third call, connect(), scanning on from an attempt that opened the
\* port, after an upload() that changed the rate
C13_Witness ==
    /\ op = "connect"
    /\ calls = 3
    /\ pc = "scan"
    /\ Len(attempts) >= 2
    /\ LastAttempt.outcome = "rejected"
    /\ ser.is_open
    /\ self.connected

\* C14: no read that timed out is followed by success: connect() returns
\* True only on a response that ends with the end-of-line marker and after
\* a confirmation of 42 bytes; upload() enters or stays in its loop, or
\* returns normally, only with the last acknowledgment read ending with 0x05
\* and the response to the first block 5 bytes long.
C14_TimedOutReadFails ==
    /\ (op = "connect" /\ ret = "True") =>
          /\ Len(data) >= 3
          /\ SubSeq(data, Len(data) - 2, Len(data)) = <<255, 255, 255>>
          /\ LastAttempt.drained = 42
    /\ (op = "upload" /\ (pc = "loop" \/ ret = "None")) =>
          /\ EndsWithAck(a)
          /\ ~firstBlock => Len(proceed) = 5

\* C15: when the response to the first block asks to continue at the size
\* of the file, the first block is the only one written, no ack() follows
\* the one of the speed switch, the count is 0 and upload() returns.
C15_SeekToEndTerminates ==
    (/\ op = "upload"
     /\ ~firstBlock
     /\ Len(proceed) = 5
     /\ proceed[1] = 8
     /\ proceed # <<8, 0, 0, 0, 0>>
     /\ SeekPos(proceed) = fileSize)
    => /\ Len(Blocks) = 1
       /\ acks = 1
       /\ remainingBlocks = 0
       /\ pc = "idle" => ret = "None"

\* upload() of 8192 bytes returned after the device asked to continue at 8192
C15_Witness ==
    /\ op = "upload"
    /\ pc = "idle"
    /\ ret = "None"
    /\ fileSize = 8192
    /\ proceed = <<8, 0, 32, 0, 0>>
    /\ Len(Blocks) = 1

\* C16: a successful connect() on the response
\* comok 1,0-1234,NX4024T,1,2,ABC123,1048576 leaves touch true, address
\* 1234, model NX4024T, firmware version 1, controller code 2, serial number
\* ABC123 and flash size 1048576, and on
\* comok 0,7-65,NX8048P,163,61744,D2,16777216 touch false, address 65, model
\* NX8048P, 163, 61744, D2 and 16777216; every connect() on the same
\* response, a repeated one included, leaves the same fields.
C16_FieldsByPosition ==
    (op = "connect" /\ ret = "True") =>
        /\ data = ReplyOk =>
              /\ self.touch = "True"
              /\ self.address = 1234
              /\ self.model = <<78, 88, 52, 48, 50, 52, 84>>
              /\ self.fwVersion = 1
              /\ self.mcuCode = 2
              /\ self.serialNum = <<65, 66, 67, 49, 50, 51>>
              /\ self.flashSize = 1048576
        /\ data = ReplyOther =>
              /\ self.touch = "False"
              /\ self.address = 65
              /\ self.model = <<78, 88, 56, 48, 52, 56, 80>>
              /\ self.fwVersion = 163
              /\ self.mcuCode = 61744
              /\ self.serialNum = <<68, 50>>
              /\ self.flashSize = 16777216

\* a connect() on the first of the two responses, of an object that an
\* earlier connect() at another rate had succeeded on
C16_Witness ==
    /\ op = "connect"
    /\ ret = "True"
    /\ data = ReplyOk
    /\ self.address = 1234
    /\ ctor.uploadSpeed = 0
    /\ self.uploadSpeed # self.connectSpeed

\* C17: every upload() after a successful connect() writes three setup
\* commands and then the initiation command, all four at the connect speed.
C17_SetupAtConnectSpeed ==
    (op = "upload" /\ lastConnect = "True" /\ written # <<>>) =>
        /\ Len(written) >= 4
        /\ \A i \in 1..3 :
              written[i].kind = "cmd" /\ written[i].cmd # "whmi-wris"
        /\ written[4].cmd = "whmi-wris"
        /\ \A i \in 1..4 : written[i].baud = self.connectSpeed

\* C18: an attempt that opened the port is accepted exactly when the bytes
\* received since the challenge, all of them in the order of arrival, begin
\* with comok.
C18_AcceptedOnAccumulated ==
    (op = "connect" /\ attempts # <<>> /\ LastAttempt.outcome # "open failed") =>
        (LastAttempt.outcome = "accepted"
            <=> (/\ Len(received) >= 5
                 /\ SubSeq(received, 1, 5) = <<99, 111, 109, 111, 107>>))

\* C19: the block loop ends.  Its count is lowered by one with every block
\* and the loop ends only at exactly 0, so it ends only if the count is not
\* below 0 when the condition is evaluated.  Stated for the uploads that
\* follow a successful connect(), of a file as long as its header says.
C19_BlockLoopTerminates ==
    (pc = "loop" /\ lastConnect = "True" /\ fileLen = fileSize /\ ~firstBlock) =>
        remainingBlocks >= 0

\* C20: no block is longer than 4096 bytes, the first starts at 0, the
\* second where the first ended or where the device asked to continue, each
\* later one where the one before it ended; an upload() that returns
\* normally has written no block for a size of 0, ceil(fileSize / 4096)
\* blocks when no seek was asked for, and 1 + ceil((fileSize - K) / 4096)
\* when one to K within the file was.
C20_BlockCountAndOffsets ==
    op = "upload" =>
        /\ \A i \in 1..Len(Blocks) :
              /\ Blocks[i].size <= 4096
              /\ i = 1 => Blocks[i].offset = 0
              /\ i = 2 =>
                    Blocks[i].offset =
                        IF proceed = <<8, 0, 0, 0, 0>>
                        THEN Blocks[1].offset + Blocks[1].size
                        ELSE SeekPos(proceed)
              /\ i > 2 =>
                    Blocks[i].offset = Blocks[i - 1].offset + Blocks[i - 1].size
        /\ ret = "None" =>
              /\ fileSize = 0 => (Blocks = <<>> /\ proceed = <<>>)
              /\ fileSize > 0 =>
                    IF proceed = <<8, 0, 0, 0, 0>>
                    THEN IsCeil(Len(Blocks), fileSize)
                    ELSE (SeekPos(proceed) <= fileSize =>
                             IsCeil(Len(Blocks) - 1, fileSize - SeekPos(proceed)))

\* upload() of 8192 bytes returned after three blocks, the device having
\* asked to continue at 1
C20_Witness ==
    /\ op = "upload"
    /\ ret = "None"
    /\ fileSize = 8192
    /\ proceed = <<8, 1, 0, 0, 0>>
    /\ Len(Blocks) = 3
    /\ Blocks[3].offset = 4097

====
